---------------------------- MODULE Spec2Model ----------------------------
(***************************************************************************)
(* Flow-field pathfinding of bevy_rts_pathfinding: the Grid (shared cost   *)
(* field), the world-to-index lookup, Cell::increase_cost, the dynamic     *)
(* cost maintenance systems and observers of grid.rs, and the FlowField    *)
(* construction of flowfield.rs.                                           *)
(*                                                                         *)
(* Numbers.  World coordinates are f32 in the source.  Here a length is an *)
(* integer count of half world units, so that cell_diameter / 2.0 and the  *)
(* cell centres are exact; a quotient that need not be an integer (the     *)
(* "percent" of the lookup) is kept as an exact fraction <<num, den>> and  *)
(* is floored where the source floors it.  Every value the model draws is  *)
(* small enough to be exact in f32.                                        *)
(* An index is <<x, y>>; the cell array is indexed grid[y][x] as in the    *)
(* source, rows and columns counted from 0.                                *)
(***************************************************************************)
EXTENDS Integers, Sequences, FiniteSets

VARIABLES
    size,            \* Grid.size: <<x, y>>
    cell_diameter,   \* Grid.cell_diameter (half world units)
    grid,            \* Grid.grid: [0..size.y-1 -> [0..size.x-1 -> Cell]]
    ents,            \* the ECS world: entity -> components and Added<> ticks,
                     \* and (history) origin: its translation when Destination was added
    phase,           \* position of the schedule: "startup", "user", "second", "flush"
                     \* ("unbuilt" before Grid::new has returned)
    cmds,            \* Commands queued by the systems of this frame
    order,           \* the build's order of the two unordered Update systems
    lastPass,        \* history: the last pass over the cost field and its notifications
    ff,              \* the FlowField being built by initialize_flowfield
    cells_to_check,  \* the VecDeque of create_integration_field
    pc,              \* position inside initialize_flowfield
    active,          \* payload of the last SetActiveFlowfieldEv (ActiveDbgFlowfield)
    cell,            \* a Cell whose cost is raised through Cell::increase_cost
    raise,           \* history: the last increase_cost call
    located          \* result of the last world-to-index lookup

vars == <<size, cell_diameter, grid, ents, phase, cmds, order, lastPass,
          ff, cells_to_check, pc, active, cell, raise, located>>

-----------------------------------------------------------------------------
(* Bounds of the model *)

\* largest grid dimension of the full program model (Spec)
MaxSize == 2
\* largest grid dimension of the lookup and field-construction models
MaxFieldSize == 5
\* largest grid dimension of the lookup model
MaxLocSize == 3
\* largest grid dimension handed to Grid::new in the construction model
MaxNewSize == 7
\* largest grid dimension of the footprint model, and the reach of its objects:
\* their translations range over -MaxReach..MaxReach half units on each axis
MaxFootSize == 2
MaxReach == 6
\* length of the corridor of the long-grid model
LongSize == 260
\* looked-up world positions range over -MaxCoord..MaxCoord half units, and +-Far
MaxCoord == 8
Far == 1000

(* Program constants *)

\* u8::MAX
U8Max == 255
\* u16::MAX
U16Max == 65535
\* the baseline cost set by Cell::new and by reset_cell_cost_helper
BaseCost == 1

-----------------------------------------------------------------------------
(* Arithmetic helpers *)

Min(a, b) == IF a < b THEN a ELSE b

\* f32::floor of the fraction r = <<num, den>>, den > 0
Floor(r) == r[1] \div r[2]

\* f32::clamp(0.0, 1.0) of a fraction
Clamp01(r) == IF r[1] < 0 THEN <<0, 1>> ELSE IF r[1] > r[2] THEN <<1, 1>> ELSE r

\* `v as usize` of an integral f32: negative values saturate to 0
\* (the upper saturation at usize::MAX is beyond every value drawn here)
AsUsize(v) == IF v < 0 THEN 0 ELSE v

\* -n as f32 * d / 2.0 : the world coordinate of the grid's top-left corner
GridOffset(n, d) == ((-n) * d) \div 2

-----------------------------------------------------------------------------
(* cell.rs *)

CellNew(world_position, idx) ==
    [world_position |-> world_position,
     idx            |-> idx,
     cost           |-> BaseCost,
     best_cost      |-> U16Max,
     best_direction |-> "None"]

\* u8::checked_add
CheckedAdd(a, b) == IF a + b > U8Max THEN [some |-> FALSE, v |-> 0]
                                     ELSE [some |-> TRUE, v |-> a + b]

\* variant: a plain u8 addition that wraps
IncreaseCostWrapping(cost, amount) == (cost + amount) % (U8Max + 1)

\* Cell::increase_cost, on the cost field of the cell
IncreaseCost(cost, amount) ==
    IF cost = U8Max THEN cost
    ELSE LET new_cost == CheckedAdd(cost, amount)
         IN  IF new_cost.some THEN new_cost.v ELSE U8Max

-----------------------------------------------------------------------------
(* grid.rs: Grid::new *)

\* variant: the cell centres are laid out from the origin, without the offset
GridNewNoOffset(sz, d) ==
    [y \in 0..(sz[2] - 1) |->
        [x \in 0..(sz[1] - 1) |->
            CellNew(<<d * x + d \div 2, d * y + d \div 2>>, <<x, y>>)]]

GridNew(sz, d) ==
    LET cell_radius == d \div 2
        offset_x == -(sz[1] * d) \div 2
        offset_y == -(sz[2] * d) \div 2
    IN  [y \in 0..(sz[2] - 1) |->
            [x \in 0..(sz[1] - 1) |->
                CellNew(<<d * x + cell_radius + offset_x,
                          d * y + cell_radius + offset_y>>, <<x, y>>)]]

(* utils.rs / grid.rs / flowfield.rs: world position -> cell *)

Panic == [kind |-> "panic"]
NoCell == [kind |-> "none"]
Found(c) == [kind |-> "cell", cell |-> c]

\* g[y][x] with Rust's bounds check
CellAt(g, x, y) ==
    IF y \in DOMAIN g /\ x \in DOMAIN g[y] THEN Found(g[y][x]) ELSE Panic

\* variant: the percentages are not clamped to [0, 1] and the index not to size - 1
HelperGenericNoClamp(position, grid_size, d, g, offset) ==
    LET x == IF offset.some THEN AsUsize(Floor(<<grid_size[1] * offset.x[1], offset.x[2]>>))
                            ELSE AsUsize(Floor(<<position[1], d>>))
        y == IF offset.some THEN AsUsize(Floor(<<grid_size[2] * offset.y[1], offset.y[2]>>))
                            ELSE AsUsize(Floor(<<position[2], d>>))
    IN  CellAt(g, x, y)

\* utils::get_cell_from_world_position_helper_generic
HelperGeneric(position, grid_size, d, g, offset) ==
    LET x0 == IF offset.some THEN AsUsize(Floor(<<grid_size[1] * offset.x[1], offset.x[2]>>))
                             ELSE AsUsize(Floor(<<position[1], d>>))
        y0 == IF offset.some THEN AsUsize(Floor(<<grid_size[2] * offset.y[1], offset.y[2]>>))
                             ELSE AsUsize(Floor(<<position[2], d>>))
    IN  IF 0 \notin DOMAIN g THEN Panic               \* grid[0] of an empty Vec
        ELSE LET x == Min(x0, Cardinality(DOMAIN g[0]) - 1)
                 y == Min(y0, Cardinality(DOMAIN g) - 1)
             IN  CellAt(g, x, y)

\* Grid::get_cell_from_world_position
GridGetCell(sz, d, g, world_pos) ==
    LET adjusted_x == world_pos[1] - GridOffset(sz[1], d)
        adjusted_y == world_pos[2] - GridOffset(sz[2], d)
        percent_x == <<adjusted_x, sz[1] * d>>
        percent_y == <<adjusted_y, sz[2] * d>>
    IN  HelperGeneric(world_pos, sz, d, g, [some |-> TRUE, x |-> percent_x, y |-> percent_y])

-----------------------------------------------------------------------------
(* grid_direction.rs: GridDirection (the compass, in its enumeration order) *)

Vector(direction) ==
    CASE direction = "None"      -> <<0, 0>>
      [] direction = "North"     -> <<0, 1>>
      [] direction = "NorthEast" -> <<1, 1>>
      [] direction = "East"      -> <<1, 0>>
      [] direction = "SouthEast" -> <<1, -1>>
      [] direction = "South"     -> <<0, -1>>
      [] direction = "SouthWest" -> <<-1, -1>>
      [] direction = "West"      -> <<-1, 0>>
      [] direction = "NorthWest" -> <<-1, 1>>

CardinalDirections == <<"North", "East", "South", "West">>

AllDirections == <<"None", "North", "NorthEast", "East", "SouthEast",
                   "South", "SouthWest", "West", "NorthWest">>

-----------------------------------------------------------------------------
(* flowfield.rs: FlowField *)

\* Vec::default()
EmptyGrid == << >>

\* FlowField::new
FlowFieldNew(cell_radius, grid_size, selected_units) ==
    [cell_radius      |-> cell_radius,
     cell_diameter    |-> cell_radius * 2,
     destination_cell |-> NoCell,
     grid             |-> EmptyGrid,
     size             |-> grid_size,
     units            |-> selected_units]

NoField == [cell_radius |-> 0, cell_diameter |-> 0, destination_cell |-> NoCell,
            grid |-> EmptyGrid, size |-> <<0, 0>>, units |-> {}]

InBounds(idx, sz) == idx[1] >= 0 /\ idx[1] < sz[1] /\ idx[2] >= 0 /\ idx[2] < sz[2]

SetCell(g, idx, c) == [g EXCEPT ![idx[2]][idx[1]] = c]

\* variant: the destination gets cost 0 but its best_cost is left at u16::MAX
SeedDestinationKeepBest(g, dest_idx) ==
    SetCell(g, dest_idx, [g[dest_idx[2]][dest_idx[1]] EXCEPT !.cost = 0])

\* create_integration_field, lines 42-49: the snapshot with the destination forced
SeedDestination(g, dest_idx) ==
    SetCell(g, dest_idx, [g[dest_idx[2]][dest_idx[1]] EXCEPT !.cost = 0, !.best_cost = 0])

\* variant: the test for an impassable neighbour is left out
RelaxNeighborThroughWalls(st, cur_idx, cur_cell_best_cost, direction, sz) ==
    LET neighbor_idx == <<cur_idx[1] + Vector(direction)[1], cur_idx[2] + Vector(direction)[2]>>
    IN  IF ~InBounds(neighbor_idx, sz) THEN st
        ELSE LET neighbor_cell == st.g[neighbor_idx[2]][neighbor_idx[1]]
                 tentative_best_cost == (neighbor_cell.cost + cur_cell_best_cost) % (U16Max + 1)
             IN  IF tentative_best_cost < neighbor_cell.best_cost
                 THEN [g |-> SetCell(st.g, neighbor_idx,
                                     [neighbor_cell EXCEPT !.best_cost = tentative_best_cost]),
                       q |-> Append(st.q, neighbor_idx)]
                 ELSE st

\* variant: an impassable neighbour is given a best_cost like any other, but is
\* not pushed, so that nothing is relaxed from it
RelaxNeighborWallsReceive(st, cur_idx, cur_cell_best_cost, direction, sz) ==
    LET neighbor_idx == <<cur_idx[1] + Vector(direction)[1], cur_idx[2] + Vector(direction)[2]>>
    IN  IF ~InBounds(neighbor_idx, sz) THEN st
        ELSE LET neighbor_cell == st.g[neighbor_idx[2]][neighbor_idx[1]]
                 tentative_best_cost == (neighbor_cell.cost + cur_cell_best_cost) % (U16Max + 1)
             IN  IF tentative_best_cost < neighbor_cell.best_cost
                 THEN [g |-> SetCell(st.g, neighbor_idx,
                                     [neighbor_cell EXCEPT !.best_cost = tentative_best_cost]),
                       q |-> IF neighbor_cell.cost = U8Max THEN st.q
                             ELSE Append(st.q, neighbor_idx)]
                 ELSE st

\* variant: a neighbour is given a best_cost only while it has none (visit once)
RelaxNeighborOnce(st, cur_idx, cur_cell_best_cost, direction, sz) ==
    LET neighbor_idx == <<cur_idx[1] + Vector(direction)[1], cur_idx[2] + Vector(direction)[2]>>
    IN  IF ~InBounds(neighbor_idx, sz) THEN st
        ELSE LET neighbor_cell == st.g[neighbor_idx[2]][neighbor_idx[1]]
                 tentative_best_cost == (neighbor_cell.cost + cur_cell_best_cost) % (U16Max + 1)
             IN  IF neighbor_cell.cost = U8Max THEN st
                 ELSE IF neighbor_cell.best_cost = U16Max
                 THEN [g |-> SetCell(st.g, neighbor_idx,
                                     [neighbor_cell EXCEPT !.best_cost = tentative_best_cost]),
                       q |-> Append(st.q, neighbor_idx)]
                 ELSE st

\* variant: the tentative cost leaves out the cost of the neighbour
RelaxNeighborNoCost(st, cur_idx, cur_cell_best_cost, direction, sz) ==
    LET neighbor_idx == <<cur_idx[1] + Vector(direction)[1], cur_idx[2] + Vector(direction)[2]>>
    IN  IF ~InBounds(neighbor_idx, sz) THEN st
        ELSE LET neighbor_cell == st.g[neighbor_idx[2]][neighbor_idx[1]]
                 tentative_best_cost == cur_cell_best_cost
             IN  IF neighbor_cell.cost = U8Max THEN st
                 ELSE IF tentative_best_cost < neighbor_cell.best_cost
                 THEN [g |-> SetCell(st.g, neighbor_idx,
                                     [neighbor_cell EXCEPT !.best_cost = tentative_best_cost]),
                       q |-> Append(st.q, neighbor_idx)]
                 ELSE st

\* variant of RelaxNeighbor: best_cost is assigned before the comparison, the
\* comparison only decides the push_back
RelaxNeighborOverwrite(st, cur_idx, cur_cell_best_cost, direction, sz) ==
    LET neighbor_idx == <<cur_idx[1] + Vector(direction)[1], cur_idx[2] + Vector(direction)[2]>>
    IN  IF ~InBounds(neighbor_idx, sz) THEN st
        ELSE LET neighbor_cell == st.g[neighbor_idx[2]][neighbor_idx[1]]
                 tentative_best_cost == (neighbor_cell.cost + cur_cell_best_cost) % (U16Max + 1)
                 g == SetCell(st.g, neighbor_idx,
                              [neighbor_cell EXCEPT !.best_cost = tentative_best_cost])
             IN  IF neighbor_cell.cost = U8Max THEN st
                 ELSE IF tentative_best_cost < neighbor_cell.best_cost
                 THEN [g |-> g, q |-> Append(st.q, neighbor_idx)]
                 ELSE [g |-> g, q |-> st.q]

\* create_integration_field, lines 62-84: one cardinal neighbour of the current cell;
\* st = [g |-> the field's cells, q |-> cells_to_check]
RelaxNeighbor(st, cur_idx, cur_cell_best_cost, direction, sz) ==
    LET neighbor_idx == <<cur_idx[1] + Vector(direction)[1], cur_idx[2] + Vector(direction)[2]>>
    IN  IF ~InBounds(neighbor_idx, sz) THEN st
        ELSE LET neighbor_cell == st.g[neighbor_idx[2]][neighbor_idx[1]]
                 tentative_best_cost == (neighbor_cell.cost + cur_cell_best_cost) % (U16Max + 1)
             IN  IF neighbor_cell.cost = U8Max THEN st
                 ELSE IF tentative_best_cost < neighbor_cell.best_cost
                 THEN [g |-> SetCell(st.g, neighbor_idx,
                                     [neighbor_cell EXCEPT !.best_cost = tentative_best_cost]),
                       q |-> Append(st.q, neighbor_idx)]
                 ELSE st

\* the for loop over GridDirection::cardinal_directions(), from direction number i on
RECURSIVE RelaxFrom(_, _, _, _, _)
RelaxFrom(st, cur_idx, cur_cell_best_cost, i, sz) ==
    IF i > Len(CardinalDirections) THEN st
    ELSE RelaxFrom(RelaxNeighbor(st, cur_idx, cur_cell_best_cost, CardinalDirections[i], sz),
                   cur_idx, cur_cell_best_cost, i + 1, sz)

\* variant of RelaxCell: the current cell is read with front() and goes back to the
\* end of the queue instead of leaving it
RelaxCellRequeue(g, q, cur_idx, sz) ==
    LET st == RelaxFrom([g |-> g, q |-> q], cur_idx, g[cur_idx[2]][cur_idx[1]].best_cost, 1, sz)
    IN  [st EXCEPT !.q = Append(st.q, cur_idx)]

\* one iteration of the while loop (lines 54-86), cur_idx already popped: q is the rest
RelaxCell(g, q, cur_idx, sz) ==
    RelaxFrom([g |-> g, q |-> q], cur_idx, g[cur_idx[2]][cur_idx[1]].best_cost, 1, sz)

\* create_flowfield, lines 104-117: the scan of all_directions() from number i on,
\* best = [cost |-> best_cost, dir |-> best_direction]
RECURSIVE ScanDirections(_, _, _, _, _)
ScanDirections(g, sz, idx, i, best) ==
    IF i > Len(AllDirections) THEN best
    ELSE LET direction == AllDirections[i]
             n == <<idx[1] + Vector(direction)[1], idx[2] + Vector(direction)[2]>>
             next == IF InBounds(n, sz) /\ g[n[2]][n[1]].best_cost < best.cost
                     THEN [cost |-> g[n[2]][n[1]].best_cost, dir |-> direction]
                     ELSE best
         IN  ScanDirections(g, sz, idx, i + 1, next)

\* variant of ScanDirections: a neighbour of equal best_cost is taken as well
RECURSIVE ScanDirectionsOrEqual(_, _, _, _, _)
ScanDirectionsOrEqual(g, sz, idx, i, best) ==
    IF i > Len(AllDirections) THEN best
    ELSE LET direction == AllDirections[i]
             n == <<idx[1] + Vector(direction)[1], idx[2] + Vector(direction)[2]>>
             next == IF InBounds(n, sz) /\ g[n[2]][n[1]].best_cost <= best.cost
                     THEN [cost |-> g[n[2]][n[1]].best_cost, dir |-> direction]
                     ELSE best
         IN  ScanDirectionsOrEqual(g, sz, idx, i + 1, next)

\* variant: the comparison with the neighbour is <= instead of <
BestDirectionOrEqual(g, sz, idx) ==
    ScanDirectionsOrEqual(g, sz, idx, 1,
                          [cost |-> g[idx[2]][idx[1]].best_cost, dir |-> "None"]).dir

\* variant of ScanDirections: all_directions() is walked from its last entry to
\* its first, from number i down
RECURSIVE ScanDirectionsDown(_, _, _, _, _)
ScanDirectionsDown(g, sz, idx, i, best) ==
    IF i < 1 THEN best
    ELSE LET direction == AllDirections[i]
             n == <<idx[1] + Vector(direction)[1], idx[2] + Vector(direction)[2]>>
             next == IF InBounds(n, sz) /\ g[n[2]][n[1]].best_cost < best.cost
                     THEN [cost |-> g[n[2]][n[1]].best_cost, dir |-> direction]
                     ELSE best
         IN  ScanDirectionsDown(g, sz, idx, i - 1, next)

\* variant: among neighbours of equal best_cost the last of the enumeration wins
BestDirectionLastWins(g, sz, idx) ==
    ScanDirectionsDown(g, sz, idx, Len(AllDirections),
                       [cost |-> g[idx[2]][idx[1]].best_cost, dir |-> "None"]).dir

\* create_flowfield, lines 99-120: the best_direction of one cell
BestDirection(g, sz, idx) ==
    ScanDirections(g, sz, idx, 1,
                   [cost |-> g[idx[2]][idx[1]].best_cost, dir |-> "None"]).dir

\* FlowField::create_flowfield
CreateFlowfield(g, sz) ==
    [y \in 0..(sz[2] - 1) |->
        [x \in 0..(sz[1] - 1) |->
            [g[y][x] EXCEPT !.best_direction = BestDirection(g, sz, <<x, y>>)]]]

\* variant: the field keeps a view of the Grid's cell array instead of a clone,
\* so that the costs it reads are the Grid's present costs
FieldGridLive(f) ==
    [y \in DOMAIN f.grid |-> [x \in DOMAIN f.grid[y] |->
        [f.grid[y][x] EXCEPT !.cost = grid[y][x].cost]]]

\* the cell array a FlowField reads: its own copy (self.grid = grid.grid.clone())
FieldGrid(f) == f.grid

\* FlowField::get_cell_from_world_position
FieldGetCell(f, world_pos) ==
    LET adjusted_x == world_pos[1] - GridOffset(f.size[1], f.cell_diameter)
        adjusted_y == world_pos[2] - GridOffset(f.size[2], f.cell_diameter)
        percent_x == Clamp01(<<adjusted_x, f.size[1] * f.cell_diameter>>)
        percent_y == Clamp01(<<adjusted_y, f.size[2] * f.cell_diameter>>)
        x == Min(AsUsize(Floor(<<f.size[1] * percent_x[1], percent_x[2]>>)), f.size[1] - 1)
        y == Min(AsUsize(Floor(<<f.size[2] * percent_y[1], percent_y[2]>>)), f.size[2] - 1)
    IN  CellAt(FieldGrid(f), x, y)

-----------------------------------------------------------------------------
(* grid.rs: footprint of an object and the cost mutations *)

Costs(g) == [y \in DOMAIN g |-> [x \in DOMAIN g[y] |-> g[y][x].cost]]

\* variant of OccupiedCells: the loops run over min..max instead of min..=max
OccupiedCellsExclusive(sz, d, translation, obj_size) ==
    LET cell_size == d
        grid_offset_x == GridOffset(sz[1], cell_size)
        grid_offset_y == GridOffset(sz[2], cell_size)
        half_extent == <<obj_size[1] \div 2, obj_size[2] \div 2>>
        aabb_min == <<translation[1] - half_extent[1], translation[2] - half_extent[2]>>
        aabb_max == <<translation[1] + half_extent[1], translation[2] + half_extent[2]>>
        min_x == Floor(<<aabb_min[1] - grid_offset_x, cell_size>>)
        max_x == Floor(<<aabb_max[1] - grid_offset_x, cell_size>>)
        min_y == Floor(<<aabb_min[2] - grid_offset_y, cell_size>>)
        max_y == Floor(<<aabb_max[2] - grid_offset_y, cell_size>>)
    IN  {idx \in (min_x..(max_x - 1)) \X (min_y..(max_y - 1)) :
            idx[1] >= 0 /\ idx[1] < sz[1] /\ idx[2] >= 0 /\ idx[2] < sz[2]}

\* Grid::for_each_cell_in_obj, lines 130-168: the occupied_cells handed to the callback
OccupiedCells(sz, d, translation, obj_size) ==
    LET cell_size == d
        grid_offset_x == GridOffset(sz[1], cell_size)
        grid_offset_y == GridOffset(sz[2], cell_size)
        half_extent == <<obj_size[1] \div 2, obj_size[2] \div 2>>
        aabb_min == <<translation[1] - half_extent[1], translation[2] - half_extent[2]>>
        aabb_max == <<translation[1] + half_extent[1], translation[2] + half_extent[2]>>
        min_x == Floor(<<aabb_min[1] - grid_offset_x, cell_size>>)
        max_x == Floor(<<aabb_max[1] - grid_offset_x, cell_size>>)
        min_y == Floor(<<aabb_min[2] - grid_offset_y, cell_size>>)
        max_y == Floor(<<aabb_max[2] - grid_offset_y, cell_size>>)
    IN  {idx \in (min_x..max_x) \X (min_y..max_y) :
            idx[1] >= 0 /\ idx[1] < sz[1] /\ idx[2] >= 0 /\ idx[2] < sz[2]}

WriteCost(g, cells, c) ==
    [y \in DOMAIN g |-> [x \in DOMAIN g[y] |->
        IF <<x, y>> \in cells THEN [g[y][x] EXCEPT !.cost = c] ELSE g[y][x]]]

\* variant of WriteCost: the index is read as (y, x)
WriteCostTransposed(g, cells, c) ==
    [y \in DOMAIN g |-> [x \in DOMAIN g[y] |->
        IF <<y, x>> \in cells THEN [g[y][x] EXCEPT !.cost = c] ELSE g[y][x]]]

\* variant: the raise indexes the array as grid[x][y]
UpdateCellCostHelperTransposed(g, cells) == WriteCostTransposed(g, cells, U8Max)

\* Grid::update_cell_cost_helper (the lookup of Vec3::ZERO is read-only)
UpdateCellCostHelper(g, cells) == WriteCost(g, cells, U8Max)

\* variant: only the first cell of the footprint is reset
ResetCellCostHelperOne(g, cells) ==
    WriteCost(g, IF cells = {} THEN {}
                 ELSE {CHOOSE idx \in cells : \A o \in cells :
                          idx[2] < o[2] \/ (idx[2] = o[2] /\ idx[1] <= o[1])}, BaseCost)

\* variant: the reset clears the cost instead of writing the baseline
ResetCellCostHelperZero(g, cells) == WriteCost(g, cells, 0)

\* variant: the reset undoes the raise by subtracting it
ResetCellCostHelperSubtract(g, cells) ==
    [y \in DOMAIN g |-> [x \in DOMAIN g[y] |->
        IF <<x, y>> \in cells
        THEN [g[y][x] EXCEPT !.cost = (@ + (U8Max + 1) - (U8Max - BaseCost)) % (U8Max + 1)]
        ELSE g[y][x]]]

\* Grid::reset_cell_cost_helper
ResetCellCostHelper(g, cells) == WriteCost(g, cells, BaseCost)

\* Grid::update_cell_costs
UpdateCellCosts(sz, d, g, translation, obj_size) ==
    UpdateCellCostHelper(g, OccupiedCells(sz, d, translation, obj_size))

\* Grid::reset_cell_costs
ResetCellCosts(sz, d, g, translation, obj_size) ==
    ResetCellCostHelper(g, OccupiedCells(sz, d, translation, obj_size))

-----------------------------------------------------------------------------
(* The ECS world.  An entity carries Transform (its translation), RtsObjSize, *)
(* the markers RtsObj and Destination, and for each of the two Added<>        *)
(* queries whether the marker was added since that system last ran.           *)

\* two entities: the least world in which footprints can overlap
Ents == {1, 2}

\* history: no Destination was given to the entity yet
NoOrigin == <<>>

NoEnt == [alive |-> FALSE, translation |-> <<0, 0>>, obj_size |-> <<0, 0>>,
          has_size |-> FALSE, rts_obj |-> FALSE, destination |-> FALSE,
          added_obj |-> FALSE, added_dest |-> FALSE, origin |-> NoOrigin]

\* events.rs: UpdateCostEv as the trigger sites of grid.rs build it (no cell is given)
UpdateCostEv == [cell |-> NoCell]

\* history record of a pass over the cost field
\* kind: the handler; cells: the indices it wrote; changed: whether a cost changed;
\* notified: the UpdateCostEv delivered since; fields: flow fields handed over since
Pass(kind, cells, before, after) ==
    [kind |-> kind, cells |-> cells, changed |-> (Costs(before) # Costs(after)),
     notified |-> {}, fields |-> 0]

Notify(pass, ev) == [pass EXCEPT !.notified = @ \cup {ev}]

\* Query::get / Query::iter of (Entity, &Transform, &RtsObjSize)
HasTransformAndSize(w, e) == w[e].alive /\ w[e].has_size

\* the cells of all the objects of es
RECURSIVE CellsOf(_, _, _, _)
CellsOf(sz, d, w, es) ==
    IF es = {} THEN {}
    ELSE LET e == CHOOSE x \in es : TRUE
         IN  OccupiedCells(sz, d, w[e].translation, w[e].obj_size)
                 \cup CellsOf(sz, d, w, es \ {e})

\* for (ent, transform, size) in objects { grid.update_cell_costs(..) }
RECURSIVE RaiseAll(_, _, _, _, _)
RaiseAll(sz, d, g, w, es) ==
    IF es = {} THEN g
    ELSE LET e == CHOOSE x \in es : \A y \in es : x <= y
         IN  RaiseAll(sz, d, UpdateCellCosts(sz, d, g, w[e].translation, w[e].obj_size),
                      w, es \ {e})

\* variant: the observer does not test the query result and resets the footprint
\* of whatever transform and size it is left with
OnRemoveRtsObjUnchecked(st, e) ==
    [st EXCEPT
        !.g = ResetCellCosts(size, cell_diameter, st.g,
                             st.w[e].translation, st.w[e].obj_size),
        !.pass = Notify(Pass("update_costfield_on_remove",
                             OccupiedCells(size, cell_diameter,
                                           st.w[e].translation, st.w[e].obj_size),
                             st.g,
                             ResetCellCosts(size, cell_diameter, st.g,
                                            st.w[e].translation, st.w[e].obj_size)),
                        UpdateCostEv)]

\* observer update_costfield_on_remove (Trigger<OnRemove, RtsObj>) for entity e;
\* st = [g |-> grid, w |-> world, pass |-> lastPass]
OnRemoveRtsObj(st, e) ==
    IF HasTransformAndSize(st.w, e)
    THEN [st EXCEPT
            !.g = ResetCellCosts(size, cell_diameter, st.g,
                                 st.w[e].translation, st.w[e].obj_size),
            !.pass = Notify(Pass("update_costfield_on_remove",
                                 OccupiedCells(size, cell_diameter,
                                               st.w[e].translation, st.w[e].obj_size),
                                 st.g,
                                 ResetCellCosts(size, cell_diameter, st.g,
                                                st.w[e].translation, st.w[e].obj_size)),
                            UpdateCostEv)]
    ELSE st

\* EntityCommands::remove::<RtsObj>: the observer runs, then the marker goes
RemoveRtsObj(st, e) ==
    IF st.w[e].alive /\ st.w[e].rts_obj
    THEN LET after == OnRemoveRtsObj(st, e)
         IN  [after EXCEPT !.w[e].rts_obj = FALSE, !.w[e].added_obj = FALSE]
    ELSE st

\* observer remove (Trigger<OnRemove, Destination>) for entity e, its commands applied
OnRemoveDestination(st, e) ==
    IF HasTransformAndSize(st.w, e)
    THEN [st EXCEPT
            !.g = ResetCellCosts(size, cell_diameter, st.g,
                                 st.w[e].translation, st.w[e].obj_size),
            !.w[e].rts_obj = TRUE,
            !.w[e].added_obj = IF st.w[e].rts_obj THEN @ ELSE TRUE,
            !.pass = Notify(Pass("remove",
                                 OccupiedCells(size, cell_diameter,
                                               st.w[e].translation, st.w[e].obj_size),
                                 st.g,
                                 ResetCellCosts(size, cell_diameter, st.g,
                                                st.w[e].translation, st.w[e].obj_size)),
                            UpdateCostEv)]
    ELSE st

\* one queued command
ApplyCommand(st, c) ==
    IF c.op = "trigger" THEN [st EXCEPT !.pass = Notify(@, c.ev)]
    ELSE RemoveRtsObj(st, c.e)

RECURSIVE ApplyCommands(_, _)
ApplyCommands(st, q) ==
    IF q = << >> THEN st ELSE ApplyCommands(ApplyCommand(st, Head(q)), Tail(q))

\* cmds.entity(*ent).remove::<RtsObj>() for every unit, in query order
RECURSIVE RemoveCommands(_)
RemoveCommands(es) ==
    IF es = {} THEN << >>
    ELSE LET e == CHOOSE x \in es : \A y \in es : x <= y
         IN  <<[op |-> "remove", e |-> e]>> \o RemoveCommands(es \ {e})

TriggerCommand(ev) == [op |-> "trigger", ev |-> ev]

-----------------------------------------------------------------------------
(* Inputs *)

\* Cell::default()
DefaultCell == [world_position |-> <<0, 0>>, idx |-> <<0, 0>>, cost |-> 0,
                best_cost |-> 0, best_direction |-> "None"]

NoPass == [kind |-> "none", cells |-> {}, changed |-> FALSE, notified |-> {},
           fields |-> 0]
NoRaise == [from |-> 0, amount |-> 0]
NoLookup == [by |-> "none", pos |-> <<0, 0>>, res |-> NoCell]

\* grid sizes and cell diameters (half world units) of the program model
Sizes == (1..MaxSize) \X (1..MaxSize)
Diameters == {4}
\* translations and RtsObjSize values of the objects of the program model
ObjTranslations == {-2, 2} \X {-2}
ObjSizes == {<<2, 2>>, <<6, 2>>}
\* where units are moved to
MoveTranslations == {<<2, 2>>}
\* cursor positions projected on the map
WorldCoords == ((-MaxCoord)..MaxCoord) \cup {-Far, Far}
\* cursor positions of the program model, projected on the map
MousePositions == {<<-2, -2>>, <<2, 2>>}

AllCells(g) == {g[y][x] : y \in DOMAIN g, x \in DOMAIN g[0]}

-----------------------------------------------------------------------------
(* The program: startup, the Update schedule, the observers *)

Init ==
    /\ size \in Sizes
    /\ cell_diameter \in Diameters
    /\ grid = GridNew(size, cell_diameter)
    /\ ents = [e \in Ents |-> NoEnt]
    /\ phase = "startup"
    /\ cmds = << >>
    /\ order \in {"update_costfield_on_add", "add"}
    /\ lastPass = NoPass
    /\ ff = NoField
    /\ cells_to_check = << >>
    /\ pc = "idle"
    /\ active = NoField
    /\ cell = DefaultCell
    /\ raise = NoRaise
    /\ located = NoLookup

Quiet == phase \in {"startup", "user"} /\ pc = "idle"

\* the application spawns an object: (Transform, RtsObjSize, RtsObj)
Spawn(e, t, s, hs) ==
    /\ Quiet
    /\ ~ents[e].alive
    /\ ents' = [ents EXCEPT ![e] = [alive |-> TRUE, translation |-> t, obj_size |-> s,
                                    has_size |-> hs, rts_obj |-> TRUE,
                                    destination |-> FALSE, added_obj |-> TRUE,
                                    added_dest |-> FALSE, origin |-> NoOrigin]]
    /\ UNCHANGED <<size, cell_diameter, grid, phase, cmds, order, lastPass,
                   ff, cells_to_check, pc, active, cell, raise, located>>

\* the application despawns an object: OnRemove<RtsObj> fires while it still exists
Despawn(e) ==
    /\ phase = "user" /\ pc = "idle"
    /\ ents[e].alive /\ ents[e].rts_obj /\ ~ents[e].destination
    /\ LET st == RemoveRtsObj([g |-> grid, w |-> ents, pass |-> lastPass], e)
       IN  /\ grid' = st.g
           /\ lastPass' = st.pass
           /\ ents' = [st.w EXCEPT ![e] = NoEnt]
    /\ UNCHANGED <<size, cell_diameter, phase, cmds, order,
                   ff, cells_to_check, pc, active, cell, raise, located>>

\* the application orders a unit to move: Destination is inserted
InsertDestination(e) ==
    /\ phase = "user" /\ pc = "idle"
    /\ ents[e].alive /\ ents[e].rts_obj /\ ~ents[e].destination
    /\ ents' = [ents EXCEPT ![e].destination = TRUE, ![e].added_dest = TRUE,
                             ![e].origin = ents[e].translation]
    /\ UNCHANGED <<size, cell_diameter, grid, phase, cmds, order, lastPass,
                   ff, cells_to_check, pc, active, cell, raise, located>>

\* the unit travels (its Transform changes) while it is no obstacle
Move(e, t) ==
    /\ phase = "user" /\ pc = "idle"
    /\ ents[e].alive /\ ents[e].destination /\ ~ents[e].rts_obj
    /\ ents[e].translation # t
    /\ ents' = [ents EXCEPT ![e].translation = t]
    /\ UNCHANGED <<size, cell_diameter, grid, phase, cmds, order, lastPass,
                   ff, cells_to_check, pc, active, cell, raise, located>>

\* the unit arrives: Destination is removed, the observer `remove` runs
RemoveDestination(e) ==
    /\ phase = "user" /\ pc = "idle"
    /\ ents[e].alive /\ ents[e].destination
    /\ LET st == OnRemoveDestination([g |-> grid, w |-> ents, pass |-> lastPass], e)
       IN  /\ grid' = st.g
           /\ lastPass' = st.pass
           /\ ents' = [st.w EXCEPT ![e].destination = FALSE, ![e].added_dest = FALSE]
    /\ UNCHANGED <<size, cell_diameter, phase, cmds, order,
                   ff, cells_to_check, pc, active, cell, raise, located>>

\* PostStartup system initialize_costfield
InitializeCostfield ==
    /\ phase = "startup"
    /\ LET objects == {e \in Ents : HasTransformAndSize(ents, e) /\ ents[e].rts_obj}
       IN  /\ grid' = RaiseAll(size, cell_diameter, grid, ents, objects)
           /\ lastPass' = Pass("initialize_costfield",
                               CellsOf(size, cell_diameter, ents, objects), grid, grid')
    /\ phase' = "user"
    /\ UNCHANGED <<size, cell_diameter, ents, cmds, order,
                   ff, cells_to_check, pc, active, cell, raise, located>>

\* the place of a system in the frame: the first one starts the frame
Turn(system) ==
    /\ pc = "idle"
    /\ \/ phase = "user" /\ order = system
       \/ phase = "second" /\ order # system

AfterTurn == IF phase = "user" THEN "second" ELSE "flush"

\* Update system update_costfield_on_add
UpdateCostfieldOnAdd ==
    /\ Turn("update_costfield_on_add")
    /\ LET objects == {e \in Ents : HasTransformAndSize(ents, e) /\ ents[e].rts_obj
                                      /\ ents[e].added_obj}
       IN  IF objects = {}
           THEN UNCHANGED <<grid, cmds, lastPass>>
           ELSE /\ grid' = RaiseAll(size, cell_diameter, grid, ents, objects)
                /\ cmds' = Append(cmds, TriggerCommand(UpdateCostEv))
                /\ lastPass' = Pass("update_costfield_on_add",
                                    CellsOf(size, cell_diameter, ents, objects),
                                    grid, grid')
    /\ ents' = [e \in Ents |-> [ents[e] EXCEPT !.added_obj = FALSE]]
    /\ phase' = AfterTurn
    /\ UNCHANGED <<size, cell_diameter, order,
                   ff, cells_to_check, pc, active, cell, raise, located>>

\* Update system add
Add ==
    /\ Turn("add")
    /\ LET units == {e \in Ents : HasTransformAndSize(ents, e) /\ ents[e].destination
                                    /\ ents[e].added_dest}
       IN  IF units = {}
           THEN UNCHANGED <<grid, cmds, lastPass>>
           ELSE /\ grid' = RaiseAll(size, cell_diameter, grid, ents, units)
                /\ cmds' = cmds \o RemoveCommands(units)
                                \o <<TriggerCommand(UpdateCostEv)>>
                /\ lastPass' = Pass("add", CellsOf(size, cell_diameter, ents, units),
                                    grid, grid')
    /\ ents' = [e \in Ents |-> [ents[e] EXCEPT !.added_dest = FALSE]]
    /\ phase' = AfterTurn
    /\ UNCHANGED <<size, cell_diameter, order,
                   ff, cells_to_check, pc, active, cell, raise, located>>

\* the end of the Update schedule: the queued commands are applied in order
ApplyDeferred ==
    /\ phase = "flush"
    /\ LET st == ApplyCommands([g |-> grid, w |-> ents, pass |-> lastPass], cmds)
       IN  /\ grid' = st.g
           /\ ents' = st.w
           /\ lastPass' = st.pass
    /\ cmds' = << >>
    /\ phase' = "user"
    /\ UNCHANGED <<size, cell_diameter, order,
                   ff, cells_to_check, pc, active, cell, raise, located>>

-----------------------------------------------------------------------------
(* flowfield.rs: the observer initialize_flowfield, one action per stretch *)

\* variant: the destination is seeded in the Grid's own array, which is then cloned
InitializeFlowfieldInPlace(world_mouse_pos) ==
    /\ phase = "user" /\ pc = "idle"
    /\ LET destination_cell == GridGetCell(size, cell_diameter, grid, world_mouse_pos)
       IN  /\ destination_cell.kind = "cell"
           /\ LET dest_idx == destination_cell.cell.idx
                  snapshot == SeedDestination(grid, dest_idx)
              IN  /\ grid' = snapshot
                  /\ ff' = [FlowFieldNew(cell_diameter \div 2, size, {}) EXCEPT
                               !.grid = snapshot,
                               !.destination_cell = snapshot[dest_idx[2]][dest_idx[1]]]
                  /\ cells_to_check' = <<dest_idx>>
    /\ pc' = "integration"
    /\ located' = NoLookup
    /\ UNCHANGED <<size, cell_diameter, ents, phase, cmds, order, lastPass,
                   active, cell, raise>>

\* lines 160-187 and 39-52: the cursor resolves to world_mouse_pos; no unit is
\* Selected (that marker is inserted by the application only), so that
\* reset_selected_unit_costs receives no position
InitializeFlowfield(world_mouse_pos) ==
    /\ phase = "user" /\ pc = "idle"
    /\ LET destination_cell == GridGetCell(size, cell_diameter, grid, world_mouse_pos)
       IN  /\ destination_cell.kind = "cell"
           /\ LET dest_idx == destination_cell.cell.idx
                  snapshot == SeedDestination(grid, dest_idx)
              IN  /\ ff' = [FlowFieldNew(cell_diameter \div 2, size, {}) EXCEPT
                               !.grid = snapshot,
                               !.destination_cell = snapshot[dest_idx[2]][dest_idx[1]]]
                  /\ cells_to_check' = <<dest_idx>>
    /\ pc' = "integration"
    /\ located' = NoLookup
    /\ UNCHANGED <<size, cell_diameter, grid, ents, phase, cmds, order, lastPass,
                   active, cell, raise>>

\* one iteration of `while let Some(cur_idx) = cells_to_check.pop_front()`
RelaxStep ==
    /\ pc = "integration"
    /\ cells_to_check # << >>
    /\ LET st == RelaxCell(ff.grid, Tail(cells_to_check), Head(cells_to_check), ff.size)
       IN  /\ ff' = [ff EXCEPT !.grid = st.g]
           /\ cells_to_check' = st.q
    /\ UNCHANGED <<size, cell_diameter, grid, ents, phase, cmds, order, lastPass,
                   pc, active, cell, raise, located>>

\* flowfield.rs:79 for the current cell idx of g: the sums
\* `neighbor_cell.cost as u16 + cur_cell_best_cost` over the in-bounds cardinal
\* neighbours that are not skipped, before any reduction to 16 bits
TentativeSums(g, sz, idx) ==
    {g[n[2]][n[1]].cost + g[idx[2]][idx[1]].best_cost :
        n \in {m \in {<<idx[1] + Vector(CardinalDirections[i])[1],
                         idx[2] + Vector(CardinalDirections[i])[2]>> :
                           i \in 1..Len(CardinalDirections)} :
                 InBounds(m, sz) /\ g[m[2]][m[1]].cost # U8Max}}

\* a u16 addition of this iteration overflows: a build with overflow checks
\* (debug) panics there; a build without (release) wraps, which is RelaxStep
RelaxPanic ==
    /\ pc = "integration"
    /\ cells_to_check # << >>
    /\ \E t \in TentativeSums(ff.grid, ff.size, Head(cells_to_check)) : t > U16Max
    /\ pc' = "panic"
    /\ UNCHANGED <<size, cell_diameter, grid, ents, phase, cmds, order, lastPass,
                   ff, cells_to_check, active, cell, raise, located>>

\* the queue is empty: create_integration_field returns, create_flowfield runs
CreateFlowfieldStep ==
    /\ pc = "integration"
    /\ cells_to_check = << >>
    /\ ff' = [ff EXCEPT !.grid = CreateFlowfield(ff.grid, ff.size)]
    /\ pc' = "created"
    /\ UNCHANGED <<size, cell_diameter, grid, ents, phase, cmds, order, lastPass,
                   cells_to_check, active, cell, raise, located>>

\* variant of SetActiveFlowfield: the event carries the clone taken right after
\* FlowField::new and the seeding, before the passes have run to their end
SetActiveFlowfieldEarly ==
    /\ pc \in {"integration", "created"}
    /\ active' = ff
    /\ ff' = NoField
    /\ pc' = "idle"
    /\ cells_to_check' = << >>
    /\ lastPass' = [lastPass EXCEPT !.fields = 1]
    /\ UNCHANGED <<size, cell_diameter, grid, ents, phase, cmds, order,
                   cell, raise, located>>

\* lines 190-191: SetActiveFlowfieldEv(Some(flowfield.clone())) and the spawn;
\* set_active_dbg_flowfield stores the clone
SetActiveFlowfield ==
    /\ pc = "created"
    /\ active' = ff
    /\ ff' = NoField
    /\ pc' = "idle"
    /\ lastPass' = [lastPass EXCEPT !.fields = 1]
    /\ UNCHANGED <<size, cell_diameter, grid, ents, phase, cmds, order,
                   cells_to_check, cell, raise, located>>

\* a lookup through the Grid (destination picking)
LocateGrid(p) ==
    /\ phase = "user" /\ pc = "idle"
    /\ located = NoLookup
    /\ located' = [by |-> "Grid", pos |-> p,
                   res |-> GridGetCell(size, cell_diameter, grid, p)]
    /\ UNCHANGED <<size, cell_diameter, grid, ents, phase, cmds, order, lastPass,
                   ff, cells_to_check, pc, active, cell, raise>>

\* a lookup through the active FlowField (the steering read of an agent)
LocateField(p) ==
    /\ phase = "user" /\ pc = "idle"
    /\ active # NoField
    /\ located = NoLookup
    /\ located' = [by |-> "FlowField", pos |-> p, res |-> FieldGetCell(active, p)]
    /\ UNCHANGED <<size, cell_diameter, grid, ents, phase, cmds, order, lastPass,
                   ff, cells_to_check, pc, active, cell, raise>>

\* cell.increase_cost(amount)
RaiseCost(amount) ==
    /\ cell' = [cell EXCEPT !.cost = IncreaseCost(cell.cost, amount)]
    /\ raise' = [from |-> cell.cost, amount |-> amount]
    /\ UNCHANGED <<size, cell_diameter, grid, ents, phase, cmds, order, lastPass,
                   ff, cells_to_check, pc, active, located>>

\* grid.rs:175 and 192: both helpers start with
\* self.get_cell_from_world_position(Vec3::ZERO).  On a Grid without cells the
\* percentages are 0/0, the indices 0, and grid[0] (or grid[0].len() - 1, or
\* grid[0][0]) is out of range in every build
HelperLookup(sz, d, g) ==
    IF sz[1] = 0 \/ sz[2] = 0 THEN Panic ELSE GridGetCell(sz, d, g, <<0, 0>>)

\* the call of a cost mutation of Grid as the program left it
Call(method, translation, obj_size, res) ==
    [by |-> method, pos |-> <<0, 0>>, res |-> res,
     translation |-> translation, obj_size |-> obj_size]

\* grid.update_cell_costs(entity, transform, size) on a fresh Grid
UpdateCellCostsCall(translation, obj_size) ==
    /\ phase = "user" /\ pc = "idle"
    /\ located = NoLookup
    /\ LET res == HelperLookup(size, cell_diameter, grid)
       IN  /\ located' = Call("update_cell_costs", translation, obj_size, res)
           /\ IF res = Panic
              THEN /\ phase' = "panic"
                   /\ UNCHANGED <<grid, lastPass>>
              ELSE /\ grid' = UpdateCellCosts(size, cell_diameter, grid, translation, obj_size)
                   /\ lastPass' = Pass("update_cell_costs",
                                       OccupiedCells(size, cell_diameter,
                                                     translation, obj_size),
                                       grid, grid')
                   /\ UNCHANGED phase
    /\ UNCHANGED <<size, cell_diameter, ents, cmds, order,
                   ff, cells_to_check, pc, active, cell, raise>>

\* grid.reset_cell_costs with the transform and size of the call before
ResetCellCostsCall ==
    /\ phase = "user" /\ pc = "idle"
    /\ located.by = "update_cell_costs"
    /\ LET res == HelperLookup(size, cell_diameter, grid)
       IN  /\ located' = Call("reset_cell_costs", located.translation, located.obj_size, res)
           /\ grid' = ResetCellCosts(size, cell_diameter, grid,
                                     located.translation, located.obj_size)
           /\ lastPass' = Pass("reset_cell_costs",
                               OccupiedCells(size, cell_diameter,
                                             located.translation, located.obj_size),
                               grid, grid')
    /\ UNCHANGED <<size, cell_diameter, ents, phase, cmds, order,
                   ff, cells_to_check, pc, active, cell, raise>>

\* the world positions of the cell centres
Centres == {c.world_position : c \in AllCells(grid)}

-----------------------------------------------------------------------------
(* Specifications *)

\* static obstacles: objects are added and removed, none is ordered to move
NextObjects ==
    \/ \E e \in Ents, t \in ObjTranslations, s \in ObjSizes : Spawn(e, t, s, TRUE)
    \/ \E e \in Ents : Despawn(e)
    \/ InitializeCostfield
    \/ UpdateCostfieldOnAdd
    \/ Add
    \/ ApplyDeferred

SpecObjects == Init /\ [][NextObjects]_vars

\* grids with terrain: sizes and the costs a cell may hold (baseline, rough, impassable)
TerrainSizes == {<<3, 1>>, <<2, 2>>, <<3, 2>>}
TerrainCosts == {BaseCost, 4, U8Max}

\* a started program whose Grid cells hold any of the terrain costs
InitTerrain ==
    /\ size \in TerrainSizes
    /\ cell_diameter = 4
    /\ \E k \in [(0..(size[1] - 1)) \X (0..(size[2] - 1)) -> TerrainCosts] :
          grid = [y \in 0..(size[2] - 1) |-> [x \in 0..(size[1] - 1) |->
                     [GridNew(size, cell_diameter)[y][x] EXCEPT !.cost = k[<<x, y>>]]]]
    /\ ents = [e \in Ents |-> NoEnt]
    /\ phase = "user"
    /\ cmds = << >>
    /\ order = "add"
    /\ lastPass = NoPass
    /\ ff = NoField
    /\ cells_to_check = << >>
    /\ pc = "idle"
    /\ active = NoField
    /\ cell = DefaultCell
    /\ raise = NoRaise
    /\ located = NoLookup

\* one flow field is built and handed over
NextTerrain ==
    \/ active = NoField /\ \E p \in Centres : InitializeFlowfield(p)
    \/ RelaxStep
    \/ CreateFlowfieldStep
    \/ SetActiveFlowfield

SpecTerrain == InitTerrain /\ [][NextTerrain]_vars

\* footprints: any Grid that Grid::new returns, objects inside, across and
\* outside its extent
FootTranslations == ((-MaxReach)..MaxReach) \X ((-MaxReach)..MaxReach)
FootSizes == {<<2, 2>>, <<6, 4>>}

InitFootprint ==
    /\ size \in (0..MaxFootSize) \X (0..MaxFootSize)
    /\ cell_diameter \in {2, 4}
    /\ grid = GridNew(size, cell_diameter)
    /\ ents = [e \in Ents |-> NoEnt]
    /\ phase = "user"
    /\ cmds = << >>
    /\ order = "add"
    /\ lastPass = NoPass
    /\ ff = NoField
    /\ cells_to_check = << >>
    /\ pc = "idle"
    /\ active = NoField
    /\ cell = DefaultCell
    /\ raise = NoRaise
    /\ located = NoLookup

NextFootprint ==
    \/ \E t \in FootTranslations, s \in FootSizes : UpdateCellCostsCall(t, s)
    \/ ResetCellCostsCall

SpecFootprint == InitFootprint /\ [][NextFootprint]_vars

\* a corridor of LongSize cells of the highest passable cost (the application
\* raised each cell with increase_cost), built towards either end
HighCost == U8Max - 1

InitLong ==
    /\ size = <<LongSize, 1>>
    /\ cell_diameter = 4
    /\ grid = [y \in {0} |-> [x \in 0..(LongSize - 1) |->
                  [GridNew(size, cell_diameter)[y][x] EXCEPT
                      !.cost = IncreaseCost(BaseCost, HighCost - BaseCost)]]]
    /\ ents = [e \in Ents |-> NoEnt]
    /\ phase = "user"
    /\ cmds = << >>
    /\ order = "add"
    /\ lastPass = NoPass
    /\ ff = NoField
    /\ cells_to_check = << >>
    /\ pc = "idle"
    /\ active = NoField
    /\ cell = DefaultCell
    /\ raise = NoRaise
    /\ located = NoLookup

NextLong ==
    \/ /\ active = NoField
       /\ \E x \in {0, LongSize - 1} : InitializeFlowfield(grid[0][x].world_position)
    \/ RelaxStep
    \/ RelaxPanic
    \/ CreateFlowfieldStep
    \/ SetActiveFlowfield

SpecLong == InitLong /\ [][NextLong]_vars

\* a 3x3 grid whose centre is impassable; the other cells are open or walls
WallCosts == {BaseCost, U8Max}

InitWall ==
    /\ size = <<3, 3>>
    /\ cell_diameter = 4
    /\ \E k \in [(0..2) \X (0..2) -> WallCosts] :
          /\ k[<<1, 1>>] = U8Max
          /\ grid = [y \in 0..2 |-> [x \in 0..2 |->
                        [GridNew(size, cell_diameter)[y][x] EXCEPT !.cost = k[<<x, y>>]]]]
    /\ ents = [e \in Ents |-> NoEnt]
    /\ phase = "user"
    /\ cmds = << >>
    /\ order = "add"
    /\ lastPass = NoPass
    /\ ff = NoField
    /\ cells_to_check = << >>
    /\ pc = "idle"
    /\ active = NoField
    /\ cell = DefaultCell
    /\ raise = NoRaise
    /\ located = NoLookup

SpecWall == InitWall /\ [][NextTerrain]_vars

\* the costs of the cells of the largest terrain grid in the fair specification
OpenCosts == {BaseCost, 4}

\* InitTerrain, with the six-cell grid holding passable costs only
InitLoop ==
    /\ size \in TerrainSizes
    /\ cell_diameter = 4
    /\ \E k \in [(0..(size[1] - 1)) \X (0..(size[2] - 1)) ->
                    IF size = <<3, 2>> THEN OpenCosts ELSE TerrainCosts] :
          grid = [y \in 0..(size[2] - 1) |-> [x \in 0..(size[1] - 1) |->
                     [GridNew(size, cell_diameter)[y][x] EXCEPT !.cost = k[<<x, y>>]]]]
    /\ ents = [e \in Ents |-> NoEnt]
    /\ phase = "user"
    /\ cmds = << >>
    /\ order = "add"
    /\ lastPass = NoPass
    /\ ff = NoField
    /\ cells_to_check = << >>
    /\ pc = "idle"
    /\ active = NoField
    /\ cell = DefaultCell
    /\ raise = NoRaise
    /\ located = NoLookup

\* the build as it runs: the while loop of create_integration_field is part of one
\* uninterrupted call of initialize_flowfield, so an iteration that can run does
SpecLoop == InitLoop /\ [][NextTerrain]_vars /\ WF_vars(RelaxStep)

\* construction: the application calls Grid::new with any size, zero included
InitNew ==
    /\ size \in (0..MaxNewSize) \X (0..MaxNewSize)
    /\ cell_diameter \in {2, 4}
    /\ grid = EmptyGrid
    /\ ents = [e \in Ents |-> NoEnt]
    /\ phase = "unbuilt"
    /\ cmds = << >>
    /\ order = "add"
    /\ lastPass = NoPass
    /\ ff = NoField
    /\ cells_to_check = << >>
    /\ pc = "idle"
    /\ active = NoField
    /\ cell = DefaultCell
    /\ raise = NoRaise
    /\ located = NoLookup

\* Grid::new(size, cell_diameter) returns Self: there is no other outcome
Construct ==
    /\ phase = "unbuilt"
    /\ grid' = GridNew(size, cell_diameter)
    /\ phase' = "startup"
    /\ UNCHANGED <<size, cell_diameter, ents, cmds, order, lastPass,
                   ff, cells_to_check, pc, active, cell, raise, located>>

NextNew == Construct

SpecNew == InitNew /\ [][NextNew]_vars

\* cost maintenance where an entity may lack the RtsObjSize component
NextMissing ==
    \/ \E e \in Ents, t \in ObjTranslations, hs \in BOOLEAN : Spawn(e, t, <<2, 2>>, hs)
    \/ \E e \in Ents : Despawn(e)
    \/ \E e \in Ents : InsertDestination(e)
    \/ \E e \in Ents : RemoveDestination(e)
    \/ InitializeCostfield
    \/ UpdateCostfieldOnAdd
    \/ Add
    \/ ApplyDeferred

SpecMissing == Init /\ [][NextMissing]_vars

\* cost maintenance: the systems and observers of grid.rs over two objects
NextCost ==
    \/ \E e \in Ents, t \in ObjTranslations, s \in ObjSizes : Spawn(e, t, s, TRUE)
    \/ \E e \in Ents : Despawn(e)
    \/ \E e \in Ents : InsertDestination(e)
    \/ \E e \in Ents, t \in MoveTranslations : Move(e, t)
    \/ \E e \in Ents : RemoveDestination(e)
    \/ InitializeCostfield
    \/ UpdateCostfieldOnAdd
    \/ Add
    \/ ApplyDeferred

SpecCost == Init /\ [][NextCost]_vars

\* the whole program: cost maintenance of one object and the flow fields
Next ==
    \/ \E t \in ObjTranslations, s \in ObjSizes : Spawn(1, t, s, TRUE)
    \/ Despawn(1)
    \/ InsertDestination(1)
    \/ \E t \in MoveTranslations : Move(1, t)
    \/ RemoveDestination(1)
    \/ InitializeCostfield
    \/ UpdateCostfieldOnAdd
    \/ Add
    \/ ApplyDeferred
    \/ \E p \in MousePositions : InitializeFlowfield(p)
    \/ RelaxStep
    \/ CreateFlowfieldStep
    \/ SetActiveFlowfield

Spec == Init /\ [][Next]_vars

\* a started program without objects, on grids up to MaxFieldSize
InitField ==
    /\ size \in (1..MaxFieldSize) \X (1..MaxFieldSize)
    /\ cell_diameter = 4
    /\ grid = GridNew(size, cell_diameter)
    /\ ents = [e \in Ents |-> NoEnt]
    /\ phase = "user"
    /\ cmds = << >>
    /\ order = "add"
    /\ lastPass = NoPass
    /\ ff = NoField
    /\ cells_to_check = << >>
    /\ pc = "idle"
    /\ active = NoField
    /\ cell = DefaultCell
    /\ raise = NoRaise
    /\ located = NoLookup

NextField ==
    \/ \E p \in Centres : InitializeFlowfield(p)
    \/ RelaxStep
    \/ CreateFlowfieldStep
    \/ SetActiveFlowfield

SpecField == InitField /\ [][NextField]_vars

\* the lookups, for every world position of WorldCoords \X WorldCoords
InitLocate ==
    /\ size \in (1..MaxLocSize) \X (1..MaxLocSize)
    /\ cell_diameter \in {2, 4}
    /\ grid = GridNew(size, cell_diameter)
    /\ ents = [e \in Ents |-> NoEnt]
    /\ phase = "user"
    /\ cmds = << >>
    /\ order = "add"
    /\ lastPass = NoPass
    /\ ff = NoField
    /\ cells_to_check = << >>
    /\ pc = "idle"
    /\ active = NoField
    /\ cell = DefaultCell
    /\ raise = NoRaise
    /\ located = NoLookup

NextLocate ==
    \/ \E p \in WorldCoords \X WorldCoords : LocateGrid(p)
    \/ \E p \in WorldCoords \X WorldCoords : LocateField(p)
    \/ InitializeFlowfield(<<0, 0>>)
    \/ RelaxStep
    \/ CreateFlowfieldStep
    \/ SetActiveFlowfield

SpecLocate == InitLocate /\ [][NextLocate]_vars

\* Cell::increase_cost on a fresh cell
InitCell ==
    /\ size = <<1, 1>>
    /\ cell_diameter = 4
    /\ grid = GridNew(size, cell_diameter)
    /\ ents = [e \in Ents |-> NoEnt]
    /\ phase = "user"
    /\ cmds = << >>
    /\ order = "add"
    /\ lastPass = NoPass
    /\ ff = NoField
    /\ cells_to_check = << >>
    /\ pc = "idle"
    /\ active = NoField
    /\ cell = CellNew(<<0, 0>>, <<0, 0>>)
    /\ raise = NoRaise
    /\ located = NoLookup

\* the amounts raised by: the ends of the u8 range, and what crosses them
Amounts == {0, 1, 2, 3, 54, 55, 56, 100, 127, 128, 200, 253, 254, 255}

NextCell == \E amount \in Amounts : RaiseCost(amount)

SpecCell == InitCell /\ [][NextCell]_vars

-----------------------------------------------------------------------------
(* Properties *)

\* C1: for every grid with both dimensions >= 1 and every world position, inside
\* the extent, on its border or far outside it, the lookup of Grid and the lookup
\* of FlowField return a cell whose index (x, y) has 0 <= x < size.x, 0 <= y < size.y
C1_LookupInBounds ==
    located.by # "none" =>
        /\ located.res.kind = "cell"
        /\ InBounds(located.res.cell.idx, size)

\* C1 witness: a FlowField lookup far outside the extent on both axes, on a grid
\* of more than one column and row
C1_Witness ==
    /\ located.by = "FlowField"
    /\ located.pos = <<Far, -Far>>
    /\ size[1] > 1 /\ size[2] > 1
    /\ located.res.kind = "cell"
    /\ located.res.cell.idx = <<size[1] - 1, 0>>

\* C2: the Grid lookup of the world position Grid::new gave to cell (cx, cy)
\* returns the cell with index (cx, cy)
C2_RoundTrip ==
    \A c \in AllCells(grid) :
        (located.by = "Grid" /\ located.pos = c.world_position) =>
            /\ located.res.kind = "cell"
            /\ located.res.cell.idx = c.idx
            /\ grid[c.idx[2]][c.idx[1]] = c

\* C2 witness: the centre of cell (2, 1) was looked up and (2, 1) came back
C2_Witness ==
    /\ located.by = "Grid"
    /\ located.res.kind = "cell"
    /\ located.res.cell.idx = <<2, 1>>
    /\ located.pos = grid[1][2].world_position

FieldCells(f) == AllCells(f.grid)
DestIdx(f) == f.destination_cell.idx
FieldCell(f, idx) == f.grid[idx[2]][idx[1]]

\* C3: after create_integration_field and create_flowfield the destination cell
\* has best_cost 0 and best_direction None, and no other cell has best_cost 0
C3_Field(f) ==
    /\ FieldCell(f, DestIdx(f)).best_cost = 0
    /\ FieldCell(f, DestIdx(f)).best_direction = "None"
    /\ \A c \in FieldCells(f) : c.idx # DestIdx(f) => c.best_cost # 0

C3_DestinationZero ==
    /\ pc = "created" => C3_Field(ff)
    /\ active # NoField => C3_Field(active)

\* C3 witness: a completed field over a grid with an impassable cell and a
\* destination that has a neighbour
C3_Witness ==
    /\ pc = "created"
    /\ \E c \in FieldCells(ff) : c.cost = U8Max
    /\ \E c \in FieldCells(ff) : c.best_cost \notin {0, U16Max}

Abs(n) == IF n < 0 THEN -n ELSE n
Manhattan(a, b) == Abs(a[1] - b[1]) + Abs(a[2] - b[2])
Relaxed == (pc = "integration" /\ cells_to_check = << >>) \/ pc = "created"

\* C4: on a grid whose cells all have cost 1, after relaxation every cell's
\* best_cost is its Manhattan distance to the destination cell
C4_Manhattan ==
    /\ (Relaxed /\ \A c \in AllCells(grid) : c.cost = BaseCost) =>
           \A c \in FieldCells(ff) : c.best_cost = Manhattan(c.idx, DestIdx(ff))
    /\ active # NoField =>
           \A c \in FieldCells(active) : c.best_cost = Manhattan(c.idx, DestIdx(active))

\* C4 witness: the 5x5 grid with destination (4, 4), where cell (0, 0) has distance 8
C4_Witness ==
    /\ size = <<5, 5>>
    /\ pc = "created"
    /\ DestIdx(ff) = <<4, 4>>
    /\ ff.grid[0][0].best_cost = 8

\* C5: raising a cell's cost saturates: from cost c by amount a the cost becomes
\* min(c + a, 255), for the raise that happened and for every amount of the u8 range
C5_Saturating ==
    /\ raise # NoRaise => cell.cost = Min(raise.from + raise.amount, U8Max)
    /\ \A a \in 0..U8Max :
          /\ IncreaseCost(cell.cost, a) = Min(cell.cost + a, U8Max)
          /\ IncreaseCost(cell.cost, a) >= cell.cost

\* C5 witness: a baseline cell raised twice by 200 has cost 255
C5_Witness ==
    /\ raise = [from |-> BaseCost + 200, amount |-> 200]
    /\ cell.cost = U8Max

Baseline(g) == \A c \in AllCells(g) : c.cost = BaseCost

\* the step removes RtsObj from e (despawn, or the queued removal of `add`)
RemovedRtsObj(e) == ents[e].alive /\ ents[e].rts_obj /\ ~ents'[e].rts_obj
\* the step removes Destination from e
RemovedDestination(e) == ents[e].destination /\ ~ents'[e].destination
\* the step ran a reset pass over the footprint of e
ResetOf(e) ==
    HasTransformAndSize(ents, e) /\ (RemovedRtsObj(e) \/ RemovedDestination(e))

\* C6: a reset pass over cells that were never raised leaves every cell of the
\* Grid at cost 1 (the Grid is unchanged), and resetting the same footprint once
\* more gives the same Grid as the reset that just happened
C6_ResetIdempotent ==
    [][\A e \in Ents : ResetOf(e) =>
          /\ Baseline(grid) => (grid' = grid /\ Baseline(grid'))
          /\ ResetCellCosts(size, cell_diameter, grid',
                            ents[e].translation, ents[e].obj_size) = grid']_vars

\* C6 witness: a reset pass over a non-empty footprint changed no cost and every
\* cell is at baseline
C6_Witness ==
    /\ lastPass.kind = "update_costfield_on_remove"
    /\ lastPass.cells # {}
    /\ ~lastPass.changed
    /\ Baseline(grid)

\* the step is a pass of initialize_costfield or of update_costfield_on_add
AddStep == phase' # phase /\ (phase = "startup" \/ Turn("update_costfield_on_add"))
\* the objects that pass handles
AddedObjects ==
    {e \in Ents : HasTransformAndSize(ents, e) /\ ents[e].rts_obj /\ ents[e].added_obj}

\* adding objects sets every in-bounds cell of their footprints to 255 and leaves
\* every other cell as it was
C7_Frame ==
    AddStep =>
        \A c \in AllCells(grid) :
            grid'[c.idx[2]][c.idx[1]] =
                IF c.idx \in CellsOf(size, cell_diameter, ents, AddedObjects)
                THEN [c EXCEPT !.cost = U8Max]
                ELSE c

\* idx is no part of the propagation of the field under construction
Excluded(idx) ==
    /\ FieldCell(ff, idx).best_cost = U16Max
    /\ \A i \in DOMAIN cells_to_check : cells_to_check[i] # idx

NoObject == \A e \in Ents : ~ents[e].alive
Unobstructed(f) == \A c \in FieldCells(f) : c.cost # U8Max

\* C8: once the added object is removed again every cell of the Grid is as
\* Grid::new made it (cost 1), and a flow field rebuilt for the destination of a
\* field built on the unobstructed Grid is identical to that field
C8_AddRemoveRoundTrip ==
    NoObject =>
        /\ grid = GridNew(size, cell_diameter)
        /\ (pc = "created" /\ active # NoField /\ Unobstructed(active)
              /\ DestIdx(active) = DestIdx(ff)) => ff = active

\* C8 witness: a field was built, then an object was added away from the
\* destination and removed (the removal changed costs), and the field rebuilt for
\* the same destination is complete
C8_Witness ==
    /\ NoObject
    /\ pc = "created"
    /\ active # NoField
    /\ Unobstructed(active)
    /\ DestIdx(active) = DestIdx(ff)
    /\ lastPass.kind = "update_costfield_on_remove"
    /\ lastPass.changed
    /\ lastPass.fields = 0
    /\ DestIdx(ff) \notin lastPass.cells

\* a blocking object the passes have seen
Present(e) == HasTransformAndSize(ents, e) /\ ents[e].rts_obj
Settled == phase = "user" /\ \A e \in Ents : ~ents[e].added_obj

\* C9: after any sequence of object add and remove events, once the passes have
\* run, a cell has cost 255 if and only if it lies in the footprint of a present
\* blocking object, and cost 1 otherwise
C9_CostsMatchObjects ==
    Settled =>
        \A c \in AllCells(grid) :
            c.cost = IF \E e \in Ents :
                           /\ Present(e)
                           /\ c.idx \in OccupiedCells(size, cell_diameter,
                                            ents[e].translation, ents[e].obj_size)
                     THEN U8Max
                     ELSE BaseCost

\* a notification is queued, or an added object awaits update_costfield_on_add
Pending ==
    \/ \E i \in DOMAIN cmds : cmds[i].op = "trigger"
    \/ \E e \in Ents : Present(e) /\ ents[e].added_obj

\* C10: every pass that changed costs is followed by an UpdateCostEv, and every
\* UpdateCostEv delivered carries a cell the pass affected
C10_NotifiedWithCells ==
    /\ (phase = "user" /\ lastPass.changed) => (lastPass.notified # {} \/ Pending)
    /\ \A ev \in lastPass.notified :
          /\ ev.cell.kind = "cell"
          /\ ev.cell.cell.idx \in lastPass.cells

\* e was given a Destination at ents[e].origin, lost it again at its present
\* translation, and no handler is left to run for it
Arrived(e) ==
    /\ phase = "user"
    /\ Present(e)
    /\ ents[e].origin # NoOrigin
    /\ ~ents[e].destination
    /\ ~ents[e].added_obj

\* C11: when an object left transform A (Destination added) and settled at
\* transform B (Destination removed) and the handlers have run, every cell of
\* footprint(A) outside footprint(B) has cost 1 and every in-bounds cell of
\* footprint(B) has cost 255, the raise at B being the last pass (after the
\* reset at A)
C11_MoveIsRemoveThenAdd ==
    \A e \in Ents : Arrived(e) =>
        LET A == OccupiedCells(size, cell_diameter, ents[e].origin, ents[e].obj_size)
            B == OccupiedCells(size, cell_diameter, ents[e].translation, ents[e].obj_size)
        IN  /\ \A c \in AllCells(grid) :
                  /\ c.idx \in B => c.cost = U8Max
                  /\ c.idx \in A \ B => c.cost = BaseCost
            /\ lastPass.kind = "update_costfield_on_add"
            /\ lastPass.cells = B

\* the step removes RtsObj or Destination from e, whose Transform or RtsObjSize
\* the observer cannot resolve
Unresolved(e) ==
    /\ ents[e].alive
    /\ ~HasTransformAndSize(ents, e)
    /\ RemovedRtsObj(e) \/ RemovedDestination(e)

\* C12: when the removal handler cannot resolve the removed object's transform or
\* size, the object is skipped: no cell changes, the lookup does not panic, no
\* pass or command is recorded, and every other object is left as it was
C12_UnresolvedSkipped ==
    [][\A e \in Ents : Unresolved(e) =>
          /\ grid' = grid
          /\ lastPass' = lastPass
          /\ cmds' = cmds
          /\ phase' = phase
          /\ \A o \in Ents \ {e} : ents'[o] = ents[o]]_vars

\* C12 witness: an entity without RtsObjSize was given a Destination and lost it
\* again while another object keeps its cells at 255
C12_Witness ==
    \E e \in Ents :
        /\ ents[e].alive /\ ~ents[e].has_size
        /\ ents[e].origin # NoOrigin /\ ~ents[e].destination
        /\ \E o \in Ents \ {e} :
              /\ Present(o) /\ ~ents[o].added_obj
              /\ ents[o].translation = ents[e].translation
              /\ \E c \in AllCells(grid) : c.cost = U8Max

\* C13: Grid::new with size.x = 0 or size.y = 0 produces no Grid (the call is
\* rejected, the dimension is not clamped), and with both dimensions >= 1 it
\* never fails
C13_ZeroSizeRejected ==
    /\ (size[1] = 0 \/ size[2] = 0) => phase \in {"unbuilt", "rejected"}
    /\ (size[1] >= 1 /\ size[2] >= 1 /\ phase # "unbuilt") =>
          /\ phase = "startup"
          /\ Cardinality(AllCells(grid)) = size[1] * size[2]

\* C14: once a FlowField has been built, a step that changes the costs of the
\* Grid (add, remove, move) leaves the field and every cell it reads (cost,
\* best_cost, best_direction) unchanged
C14_SnapshotIsolation ==
    [][(active # NoField /\ Costs(grid') # Costs(grid)) =>
          /\ active' = active
          /\ FieldGrid(active)' = FieldGrid(active)]_vars

\* C14 witness: after the field was handed over a pass changed the costs of the
\* Grid, and the field still holds the old cost of a cell that pass wrote
C14_Witness ==
    /\ active # NoField
    /\ lastPass.changed
    /\ lastPass.fields = 0
    /\ \E c \in AllCells(grid) :
          /\ c.idx \in lastPass.cells
          /\ c.idx # DestIdx(active)
          /\ FieldGrid(active)[c.idx[2]][c.idx[1]].cost # c.cost

RECURSIVE ReachFrom(_, _)
ReachFrom(f, S) ==
    LET N == {c.idx : c \in {c \in FieldCells(f) :
                  /\ c.cost < U8Max
                  /\ c.idx \notin S
                  /\ \E i \in S : Manhattan(c.idx, i) = 1}}
    IN  IF N = {} THEN S ELSE ReachFrom(f, S \cup N)

Reachable(f) == ReachFrom(f, {DestIdx(f)})

\* C16: after relaxation every cell without a 4-connected path to the destination
\* through cells of cost below 255 still holds the unreached distance 65535
C16_UnreachedKeepSentinel ==
    /\ Relaxed =>
          \A c \in FieldCells(ff) : c.idx \notin Reachable(ff) => c.best_cost = U16Max
    /\ active # NoField =>
          \A c \in FieldCells(active) :
              c.idx \notin Reachable(active) => c.best_cost = U16Max

\* C16 witness: a completed field with a passable cell cut off from the
\* destination, beside cells that were reached
C16_Witness ==
    /\ pc = "created"
    /\ \E c \in FieldCells(ff) :
          /\ c.cost < U8Max
          /\ c.idx \notin Reachable(ff)
          /\ c.best_cost = U16Max
    /\ \E c \in FieldCells(ff) : c.best_cost \notin {0, U16Max}

\* the in-bounds cells around idx, diagonal ones included
Neighbours8(f, idx) ==
    {c \in FieldCells(f) :
        /\ c.idx # idx
        /\ Abs(c.idx[1] - idx[1]) <= 1
        /\ Abs(c.idx[2] - idx[2]) <= 1}

\* no neighbour of c has a smaller best_cost than c
LocalMinimum(f, c) == \A n \in Neighbours8(f, c.idx) : n.best_cost >= c.best_cost

RECURSIVE Dijkstra(_, _, _)
Dijkstra(f, dist, done) ==
    LET open == {c \in FieldCells(f) : c.idx \notin done /\ dist[c.idx] < U16Max}
    IN  IF open = {} THEN dist
        ELSE LET u == CHOOSE c \in open : \A o \in open : dist[c.idx] <= dist[o.idx]
                 next == [i \in DOMAIN dist |->
                            IF /\ i \notin done
                               /\ Manhattan(i, u.idx) = 1
                               /\ FieldCell(f, i).cost < U8Max
                               /\ dist[u.idx] + FieldCell(f, i).cost < dist[i]
                            THEN dist[u.idx] + FieldCell(f, i).cost
                            ELSE dist[i]]
             IN  Dijkstra(f, next, done \cup {u.idx})

\* the shortest-path value of every index: the least sum of the costs of the cells
\* entered on a 4-connected path from the destination through cells below 255
ShortestPath(f) ==
    Dijkstra(f, [i \in {c.idx : c \in FieldCells(f)} |->
                    IF i = DestIdx(f) THEN 0 ELSE U16Max], {})

\* C18: when the relaxation loop has ended, every cell's best_cost is the
\* reference shortest-path value, the one a priority-queue run computes
C18_ShortestPath ==
    /\ Relaxed =>
          \A c \in FieldCells(ff) : c.best_cost = ShortestPath(ff)[c.idx]
    /\ active # NoField =>
          \A c \in FieldCells(active) : c.best_cost = ShortestPath(active)[c.idx]

\* C18 witness: on a 3x2 grid with destination (0,0) and rough cell (1,0), cell
\* (2,0) is first reached through (1,0) with 5 and ends with 4, the way round
C18_Witness ==
    /\ size = <<3, 2>>
    /\ pc = "created"
    /\ DestIdx(ff) = <<0, 0>>
    /\ ff.grid[0][1].cost = 4
    /\ ff.grid[0][2].cost = BaseCost
    /\ ff.grid[0][2].best_cost = 4
    /\ ff.grid[0][1].best_cost = 4

\* a step of the relaxation loop: the build stays inside create_integration_field
LoopStep == pc = "integration" /\ pc' = "integration"

\* the indices whose best_cost is strictly smaller after the step
Lowered == {c.idx : c \in {k \in FieldCells(ff) : FieldCell(ff', k.idx).best_cost < k.best_cost}}

\* every iteration pops one index and pushes one index per strictly lowered
\* best_cost, and a best_cost never falls below 0
C19_Paired ==
    LoopStep =>
        /\ Len(cells_to_check') = Len(cells_to_check) - 1 + Cardinality(Lowered)
        /\ \A c \in FieldCells(ff') : c.best_cost >= 0

\* C19: the relaxation loop terminates: once create_integration_field has seeded
\* the queue, the queue eventually becomes empty, and every push is paired with
\* a strict decrease of a best_cost that is bounded below by 0
C19_Terminates ==
    /\ (pc = "integration") ~> (cells_to_check = << >>)
    /\ [][C19_Paired]_vars

\* C19 witness: the loop has ended on a 3x2 grid where cell (1,1) was pushed
\* twice, first reached through the rough cell (1,0), then through (0,1)
C19_Witness ==
    /\ pc = "integration"
    /\ cells_to_check = << >>
    /\ size = <<3, 2>>
    /\ DestIdx(ff) = <<0, 0>>
    /\ ff.grid[0][1].cost = 4
    /\ ff.grid[1][1].best_cost = 2
    /\ ff.grid[0][2].best_cost = 4

\* C20: while a field is being built, no step raises a cell's best_cost: it
\* stays the same or strictly decreases
C20_Monotone ==
    [][(ff # NoField /\ ff' # NoField) =>
          \A c \in FieldCells(ff) : FieldCell(ff', c.idx).best_cost <= c.best_cost]_vars

\* C20 witness: an index waits twice in the queue, so its best_cost was lowered
\* a second time, from one reached value to a smaller one
C20_Witness ==
    /\ pc = "integration"
    /\ \E i, j \in 1..Len(cells_to_check) :
          /\ i < j
          /\ cells_to_check[i] = cells_to_check[j]
          /\ FieldCell(ff, cells_to_check[i]).best_cost < U16Max

\* the cells one cardinal step away from idx
Neighbours4(f, idx) == {n \in FieldCells(f) : Manhattan(n.idx, idx) = 1}

\* the edge midpoints of the 3x3 grid, and the distance between two ring cells
\* when the centre cannot be crossed: two steps more between opposite midpoints
Midpoints == {<<1, 0>>, <<0, 1>>, <<2, 1>>, <<1, 2>>}
GoAround(a, b) ==
    Manhattan(a, b) + (IF /\ a \in Midpoints /\ b \in Midpoints /\ a # b
                          /\ (a[1] = b[1] \/ a[2] = b[2])
                       THEN 2 ELSE 0)

\* C21: a cell of cost 255 is never the current cell of a relaxation step, every
\* reached cell's final best_cost is its own cost added to the best_cost of a
\* reached cardinal neighbour that is not impassable, and on a 3x3 grid whose
\* only wall is the centre the distances are the go-around distances
C21_WallsBlock ==
    /\ pc = "integration" =>
          \A i \in 1..Len(cells_to_check) : FieldCell(ff, cells_to_check[i]).cost # U8Max
    /\ Relaxed =>
          \A c \in FieldCells(ff) :
              (c.best_cost < U16Max /\ c.idx # DestIdx(ff)) =>
                  \E n \in Neighbours4(ff, c.idx) :
                      /\ n.cost # U8Max
                      /\ n.best_cost < U16Max
                      /\ c.best_cost = n.best_cost + c.cost
    /\ (/\ Relaxed
        /\ size = <<3, 3>>
        /\ \A c \in FieldCells(ff) :
              c.cost = (IF c.idx = <<1, 1>> THEN U8Max
                        ELSE IF c.idx = DestIdx(ff) THEN 0 ELSE BaseCost)) =>
          \A c \in FieldCells(ff) :
              c.idx # <<1, 1>> => c.best_cost = GoAround(c.idx, DestIdx(ff))

\* C21 witness: centre wall, destination (0,1): the far midpoint (2,1) ends at 4
C21_Witness ==
    /\ pc = "created"
    /\ size = <<3, 3>>
    /\ DestIdx(ff) = <<0, 1>>
    /\ ff.grid[1][1].cost = U8Max
    /\ \A c \in FieldCells(ff) : c.idx \notin {<<1, 1>>, <<0, 1>>} => c.cost = BaseCost
    /\ ff.grid[1][2].best_cost = 4

\* an impassable cell next to a reached passable cell
Besieged(f, c) ==
    /\ c.cost = U8Max
    /\ \E n \in Neighbours4(f, c.idx) : n.cost # U8Max /\ n.best_cost < U16Max

\* C22 as stated: when relaxation has ended, an impassable cell that is a cardinal
\* neighbour of a reached passable cell has received a finite best_cost
C22_Original ==
    Relaxed => \A c \in FieldCells(ff) : Besieged(ff, c) => c.best_cost < U16Max

\* C22 amended: a cell of cost 255 never receives a best_cost: throughout the
\* build and in the field handed over it keeps the sentinel 65535
C22_WallsKeepSentinel ==
    /\ ff # NoField => \A c \in FieldCells(ff) : c.cost = U8Max => c.best_cost = U16Max
    /\ active # NoField =>
          \A c \in FieldCells(active) : c.cost = U8Max => c.best_cost = U16Max

\* C22 witness: relaxation has ended and an impassable cell lies next to a
\* reached passable cell
C22_Witness ==
    /\ pc = "integration"
    /\ cells_to_check = << >>
    /\ \E c \in FieldCells(ff) : Besieged(ff, c)

\* the index a direction leads to from idx
Target(idx, direction) == <<idx[1] + Vector(direction)[1], idx[2] + Vector(direction)[2]>>

\* the smallest best_cost around c
SmallestAround(f, c) ==
    CHOOSE m \in {n.best_cost : n \in Neighbours8(f, c.idx)} :
        \A n \in Neighbours8(f, c.idx) : m <= n.best_cost

\* the numbers, in the enumeration of all directions, of the directions that lead
\* from c to an in-bounds neighbour holding the smallest best_cost around c
Smallest(f, c) ==
    {i \in 1..Len(AllDirections) :
        /\ AllDirections[i] # "None"
        /\ InBounds(Target(c.idx, AllDirections[i]), f.size)
        /\ FieldCell(f, Target(c.idx, AllDirections[i])).best_cost = SmallestAround(f, c)}

\* C23: after the direction pass, every cell with a neighbour of strictly smaller
\* best_cost points at the in-bounds 8-neighbour of smallest best_cost, and among
\* several such neighbours at the one that comes first in the enumeration order
C23_FirstSmallestWins ==
    pc = "created" =>
        \A c \in FieldCells(ff) :
            SmallestAround(ff, c) < c.best_cost =>
                /\ Smallest(ff, c) # {}
                /\ c.best_direction =
                      AllDirections[CHOOSE i \in Smallest(ff, c) :
                                        \A j \in Smallest(ff, c) : i <= j]

\* C23 witness: a completed field where two neighbours of a reached cell tie for
\* the smallest best_cost, below the cell's own
C23_Witness ==
    /\ pc = "created"
    /\ \E c \in FieldCells(ff) :
          /\ c.best_cost < U16Max
          /\ SmallestAround(ff, c) < c.best_cost
          /\ Cardinality(Smallest(ff, c)) >= 2

\* the indices of the Grid, and those whose cell has cost c
GridIndices == (0..(size[1] - 1)) \X (0..(size[2] - 1))
Holding(c) == {idx \in GridIndices : grid[idx[2]][idx[1]].cost = c}

\* the world-space box of the object of the last call: <<min corner, max corner>>
Box ==
    LET h == <<located.obj_size[1] \div 2, located.obj_size[2] \div 2>>
    IN  <<<<located.translation[1] - h[1], located.translation[2] - h[2]>>,
          <<located.translation[1] + h[1], located.translation[2] + h[2]>>>>

\* the rectangle of indices between the lookups of the two corners of the box
MappedRectangle ==
    LET lo == GridGetCell(size, cell_diameter, grid, Box[1]).cell.idx
        hi == GridGetCell(size, cell_diameter, grid, Box[2]).cell.idx
    IN  (lo[1]..hi[1]) \X (lo[2]..hi[2])

\* the indices whose cell (closed at its low edges, open at its high edges)
\* meets the box
Overlapped ==
    {idx \in GridIndices :
        /\ Box[1][1] < GridOffset(size[1], cell_diameter) + (idx[1] + 1) * cell_diameter
        /\ Box[2][1] >= GridOffset(size[1], cell_diameter) + idx[1] * cell_diameter
        /\ Box[1][2] < GridOffset(size[2], cell_diameter) + (idx[2] + 1) * cell_diameter
        /\ Box[2][2] >= GridOffset(size[2], cell_diameter) + idx[2] * cell_diameter}

\* C24 as stated: the indices a raise writes, and the indices the reset with the
\* same transform writes, are the inclusive rectangle between the world-to-index
\* lookups of the min corner and the max corner of the bounding box
C24_Original ==
    /\ (located.by = "update_cell_costs" /\ located.res # Panic) =>
          /\ Holding(U8Max) = MappedRectangle
          /\ lastPass.cells = MappedRectangle
    /\ located.by = "reset_cell_costs" =>
          /\ Holding(U8Max) = {}
          /\ lastPass.cells = MappedRectangle

\* C24 amended: the indices written are the in-range indices of the rectangle
\* between the unclamped corner indices, that is the indices whose cell the box
\* meets: the rectangle between the lookups of the corners when the box meets
\* the grid, and none when it lies outside; the reset writes the same set
C24_FootprintIsOverlap ==
    /\ located.by = "update_cell_costs" =>
          /\ Holding(U8Max) = (IF located.res = Panic THEN {} ELSE Overlapped)
          /\ (located.res # Panic /\ Overlapped # {}) => Overlapped = MappedRectangle
          /\ lastPass.cells = Holding(U8Max)
    /\ located.by = "reset_cell_costs" =>
          /\ Holding(U8Max) = {}
          /\ lastPass.cells = Overlapped

\* C24 witness: an object across the border of a 2x2 grid was added and removed:
\* its box meets two of the four cells
C24_Witness ==
    /\ located.by = "reset_cell_costs"
    /\ size = <<2, 2>>
    /\ Cardinality(lastPass.cells) = 2
    /\ located.translation[1] - located.obj_size[1] \div 2
          < GridOffset(size[1], cell_diameter)

\* C29: a cost mutation makes no out-of-range access: its lookup finds a cell,
\* every index it writes lies within 0 <= x < size.x and 0 <= y < size.y, and an
\* object whose box lies wholly outside the grid changes no cell
C29_NoOutOfRangeAccess ==
    located.by \in {"update_cell_costs", "reset_cell_costs"} =>
        /\ located.res # Panic
        /\ lastPass.cells \subseteq GridIndices
        /\ Overlapped = {} => (Holding(BaseCost) = GridIndices /\ ~lastPass.changed)

\* no relaxation is left to do in f: no reached cell offers a passable cardinal
\* neighbour a smaller best_cost than the one it holds
Converged(f) ==
    \A c \in FieldCells(f) :
        c.best_cost < U16Max =>
            \A n \in Neighbours4(f, c.idx) :
                n.cost # U8Max => n.best_cost <= n.cost + c.best_cost

\* every cell of f holds the direction the direction pass derives from the
\* best_costs of f
Directed(f) ==
    \A c \in FieldCells(f) : c.best_direction = BestDirection(f.grid, f.size, c.idx)

\* C25: the direction pass starts only when the work queue is empty and the
\* integration field converged, a field reaches its consumers only from the
\* state after both passes, and the field consumers hold is converged with
\* every direction written
C25_HandedOverComplete ==
    /\ [](active # NoField => (Converged(active) /\ Directed(active)))
    /\ [][(pc = "integration" /\ pc' # "integration") =>
            (pc' = "created" /\ cells_to_check = << >> /\ Converged(ff))]_vars
    /\ [][active' # active =>
            (pc = "created" /\ active' = ff /\ Converged(ff) /\ Directed(ff))]_vars

\* C25 witness: consumers hold a field in which a cell two or more steps from the
\* destination has its distance and its direction
C25_Witness ==
    /\ active # NoField
    /\ pc = "idle"
    /\ \E c \in FieldCells(active) :
          c.best_cost > 1 /\ c.best_cost < U16Max /\ c.best_direction # "None"

\* C26: after construction and any sequence of add, remove and move operations
\* (and of flow field builds), every cell of the Grid has a cost from 1 to 255
C26_CostInRange ==
    \A c \in AllCells(grid) : c.cost >= BaseCost /\ c.cost <= U8Max

\* C26 witness: an object was added, moved and has arrived: one pass of `add`
\* and one of `remove` have written the Grid, which holds both 1 and 255
C26_Witness ==
    /\ lastPass.kind = "update_costfield_on_add"
    /\ ents[1].origin # NoOrigin
    /\ ents[1].origin # ents[1].translation
    /\ \E c \in AllCells(grid) : c.cost = U8Max
    /\ \E c \in AllCells(grid) : c.cost = BaseCost

\* C27: relaxation is total: no candidate sum of neighbour cost and current
\* distance exceeds 65535, so that the addition neither wraps nor panics, and no
\* cell that holds the unreached distance 65535 is the current cell of a step
C27_NoOverflow ==
    /\ pc # "panic"
    /\ pc = "integration" =>
          \A i \in 1..Len(cells_to_check) :
              /\ FieldCell(ff, cells_to_check[i]).best_cost < U16Max
              /\ \A t \in TentativeSums(ff.grid, ff.size, cells_to_check[i]) : t <= U16Max

\* the walk of an agent from idx: it steps to the neighbour its cell names, at
\* most `steps` times; TRUE when it stands on the destination cell.  Every step
\* must land in bounds, on a cell of smaller best_cost and of cost below 255
RECURSIVE Arrives(_, _, _)
Arrives(f, idx, steps) ==
    IF idx = DestIdx(f) THEN TRUE
    ELSE LET c == FieldCell(f, idx)
             t == Target(idx, c.best_direction)
         IN  /\ steps > 0
             /\ c.best_direction # "None"
             /\ InBounds(t, f.size)
             /\ FieldCell(f, t).best_cost < c.best_cost
             /\ FieldCell(f, t).cost # U8Max
             /\ Arrives(f, t, steps - 1)

\* C28: in a completed FlowField the walk along best_direction from any cell with
\* a finite best_cost steps only to in-bounds cells of strictly smaller best_cost
\* and of cost below 255, and reaches the destination cell
C28_WalkArrives ==
    /\ pc = "created" =>
          \A c \in FieldCells(ff) :
              c.best_cost < U16Max => Arrives(ff, c.idx, Cardinality(FieldCells(ff)))
    /\ active # NoField =>
          \A c \in FieldCells(active) :
              c.best_cost < U16Max => Arrives(active, c.idx, Cardinality(FieldCells(active)))

\* the directions that change both coordinates
Diagonals == {"NorthEast", "SouthEast", "SouthWest", "NorthWest"}

\* c points diagonally between two impassable cells: the two cells that share an
\* edge with c and with the cell it points at both have cost 255
Squeezes(f, c) ==
    /\ c.best_direction \in Diagonals
    /\ FieldCell(f, <<c.idx[1] + Vector(c.best_direction)[1], c.idx[2]>>).cost = U8Max
    /\ FieldCell(f, <<c.idx[1], c.idx[2] + Vector(c.best_direction)[2]>>).cost = U8Max

\* C30: in a completed FlowField no cell's best_direction is a diagonal whose two
\* adjacent cardinal neighbours are both impassable
C30_NoDiagonalSqueeze ==
    /\ pc = "created" => \A c \in FieldCells(ff) : ~Squeezes(ff, c)
    /\ active # NoField => \A c \in FieldCells(active) : ~Squeezes(active, c)

=============================================================================
